---- MODULE Spec2Model ----
(***************************************************************************)
(* Order-lifecycle state machine of the OKX trading bot (src/index.js):    *)
(* the aggressive-buy cycle, the handling of fill and cancellation events, *)
(* and the reconciliation pass run after a private-feed disconnect,        *)
(* together with the venue (orders, fill history) and the Account Feed.    *)
(*                                                                         *)
(* The program is one cooperative event loop.  A handler runs atomically   *)
(* up to its next network suspension point (an awaited gateway call).  A   *)
(* gateway call is two steps: the handler issues it and the venue executes *)
(* it (the venue's steps commute with the bot's, so the request is taken   *)
(* to reach the venue at once), and later the response resumes the         *)
(* handler.  Timers, feed events and venue activity interleave freely      *)
(* between the two.  Continuations that JavaScript runs as microtasks of   *)
(* the same turn of the event loop belong to the step that enables them.   *)
(*                                                                         *)
(* Prices are integers in price units; an unrounded price (a price times a *)
(* percentage) is carried in thousandths of a unit ("milli-units"), which  *)
(* is exact for the per-mille margins of the program.  Floating-point      *)
(* representation error of the JavaScript doubles is not modelled.         *)
(***************************************************************************)
EXTENDS Integers, Sequences, FiniteSets, Bags, TLC

(* ---------------- program constants ---------------- *)
\* CONFIG.PROFIT_PERCENTAGE_PER_TRADE = 0.2 (percent), in per mille
ProfitPermille == 2
\* CONFIG.DCA_BUY_PERCENTAGE_BELOW = 0.3 (percent), in per mille
DcaPermille == 3
\* CONFIG.BASE_CURRENCY_TRADE_AMOUNT, in size units
BaseTradeAmount == 3
\* instrumentDetails.tickSz, in price units
TickSz == 10
\* instrumentDetails.lotSz, in size units
LotSz == 2
\* CONFIG.MAX_API_RETRIES
MaxApiRetries == 3

(* ---------------- bounds of the model ---------------- *)
\* orders the venue accepts in one run; further placements are rejected
MaxOrders == 4
\* orders the venue accepts in a run the environment leaves alone
MaxOrdersCalm == 5
\* Account Feed events in flight
MaxFeed == 1
\* gateway calls that fail for a transient reason
MaxApiFail == 1
\* environment events other than fills and responses (failures, price
\* ticks, connection losses, foreign cancellations, second deliveries,
\* the shutdown signal) in one run
MaxEnv == 1
\* events the Account Feed delivers a second time
MaxDup == 1
\* private-feed connection losses
MaxDrops == 2
\* orders the venue accepts in a run where only the connection is disturbed
MaxOrdersLink == 4
\* connection events (losses, forced reconnects) in such a run
MaxEnvLink == 2
\* orders the venue accepts in a run on a coarsely ticked instrument
MaxOrdersCoarse == 4
\* orders the venue holds in a run that starts with an order left open by
\* an earlier run (that order included)
MaxOrdersBoot == 4
\* placeOrder calls in a run that follows single requests
MaxCalls == 3
\* orders the venue accepts in a run followed until it rests
MaxOrdersLive == 3
\* orders the venue accepts in a run with a failing call and a lost connection
MaxOrdersFault == 3
\* environment events in such a run
MaxEnvFault == 2
\* cancellations made at the venue by someone else than the bot
MaxExtCancel == 1
\* price ticks of the Market Feed
MaxTicks == 1
\* last-trade prices the Market Feed reports
Prices == {10000, 10050}
\* last-trade prices of instruments whose price is a few hundred ticks
CoarsePrices == {1000, 2000, 2490, 2500, 3000, 5000}

(* ---------------- values ---------------- *)
\* null in an order slot
NoOrder == [orderId |-> 0, side |-> "none", price |-> 0, size |-> 0]
\* null in aggressiveBuyRetryTimeout; "armed" tells a pending timer from a
\* handle whose timer has already fired
NoTimer == [kind |-> "none", armed |-> FALSE]
IdlePass == [pc |-> "idle", open |-> [ok |-> FALSE, ids |-> {}],
             trades |-> <<>>, orphans |-> {}]
IdleShutdown == [pc |-> "none", open |-> {}]

\* no placeOrder call followed yet
IdleRequest ==
    [pc |-> "idle", attempt |-> 0, sent |-> 0, log |-> <<>>, calls |-> 0]

\* what can come of one HTTP request: "ok" is a response with code '0' and
\* sCode '0'; "sCode" one with code '0' and a non-zero sCode for the order;
\* "code" one with a non-zero code; "http" a response with a 4xx status;
\* "io" no response (network error, timeout) or a 5xx status, on which
\* axios throws
Answers == {"ok", "sCode", "code", "http", "io"}

\* the answers by which the venue rejects the request as such
Rejections == {"sCode", "code"}

SetMin(S) == CHOOSE x \in S : \A y \in S : x <= y

(* ---------------- price and size arithmetic ---------------- *)
\* Math.floor in place of Math.round
RoundPriceDown(pm) == (pm \div (TickSz * 1000)) * TickSz

\* Math.round(price / tickSize) * tickSize, price given in milli-units
RoundPrice(pm) ==
    ((2 * pm + TickSz * 1000) \div (2 * TickSz * 1000)) * TickSz

\* Math.round(size / lotSize) * lotSize
RoundSize(sz) == ((2 * sz + LotSz) \div (2 * LotSz)) * LotSz

\* fillPrice * (1 + PROFIT_PERCENTAGE_PER_TRADE / 100), in milli-units
ProfitPrice(fillPrice) == fillPrice * (1000 + ProfitPermille)

\* fillPrice * (1 - DCA_BUY_PERCENTAGE_BELOW / 100), in milli-units
DcaPrice(fillPrice) == fillPrice * (1000 - DcaPermille)

\* this.roundSize(CONFIG.BASE_CURRENCY_TRADE_AMOUNT)
calculateTradeSize == RoundSize(BaseTradeAmount)

VARIABLES
    \* ---- the bot (fields of OKXTradingBot)
    openSellOrders,             \* Sell Slots: set of slot records
    pendingDcaBuyOrder,         \* Averaging-Down Slot
    currentAggressiveBuyOrder,  \* Aggressive Slot
    totalRealizedProfit,
    isShuttingDown,
    isInAggressiveBuyMode,
    aggressiveBuyRetryTimeout,  \* the latest timer handle
    isReconnecting,
    pendingOrderOperations,
    lastKnownPrice,
    \* ---- the event loop
    boot,            \* "init" | "running" | "exited"
    tasks,           \* bag of handlers suspended on a gateway call
    orphanTimers,    \* bag of pending timers whose handle was overwritten
    recon,           \* the reconciliation pass
    reconnectTimer,  \* a reconnectPrivateWebSocket timer is pending
    shutdown,        \* gracefulShutdown's position
    \* ---- the venue and the Account Feed
    orders,          \* sequence of orders, index = order id; req is the
                     \* price asked for (milli-units), px the price it has
    trades,          \* the venue's fills with ts > lastSuccessfulWSMessage,
                     \* oldest first (older ones are never looked at)
    feed,            \* Account Feed events in flight, FIFO
    wsPrivate,       \* "open" | "connecting" | "closed"
    \* ---- budgets of the bounds
    apiFails, dups, drops, extCancels, ticks, env,
    failIn,          \* 0, or n: the n-th gateway call from now fails
    orderCap,        \* orders the venue accepts in this run
    envCap,          \* environment events of this run
    \* ---- history
    cycleNo,         \* aggressive buy cycles started so far
    applied,         \* bag of order ids: fill events handleOrderUpdate was given
    credited,        \* sells whose profit was added: [id, nth, left], at
                     \* the nth application of the sell's fill event, which
                     \* left that many other Sell Slots
    replayed,        \* buy fills the latest pass replayed with both placements
                     \* confirmed: [buy, dca]
    orphaned,        \* bag of order ids the latest pass cancelled as orphans
    cleared,         \* order ids the latest pass's processMissedCancellations
                     \* took out of the registry
    passes,          \* reconciliation passes in progress
    passNo,          \* reconciliation passes started so far
    unreconciled,    \* the private connection was lost or replaced and no
                     \* pass has completed since
    api              \* a placeOrder call followed request by request: where
                     \* apiRequest stands, its loop counter, the requests
                     \* sent and the answers received for this call

vars == <<openSellOrders, pendingDcaBuyOrder, currentAggressiveBuyOrder,
          totalRealizedProfit, isShuttingDown, isInAggressiveBuyMode,
          aggressiveBuyRetryTimeout, isReconnecting, pendingOrderOperations,
          lastKnownPrice, boot, tasks, orphanTimers, recon, reconnectTimer,
          shutdown, orders, trades, feed, wsPrivate,
          apiFails, dups, drops, extCancels, ticks, env, failIn, orderCap,
          envCap, cycleNo, applied, credited, replayed, orphaned, passes,
          passNo, unreconciled, cleared, api>>

\* the current state as one record, so that handlers compose
Cur == [
    openSellOrders |-> openSellOrders,
    pendingDcaBuyOrder |-> pendingDcaBuyOrder,
    currentAggressiveBuyOrder |-> currentAggressiveBuyOrder,
    totalRealizedProfit |-> totalRealizedProfit,
    isShuttingDown |-> isShuttingDown,
    isInAggressiveBuyMode |-> isInAggressiveBuyMode,
    aggressiveBuyRetryTimeout |-> aggressiveBuyRetryTimeout,
    isReconnecting |-> isReconnecting,
    pendingOrderOperations |-> pendingOrderOperations,
    lastKnownPrice |-> lastKnownPrice,
    boot |-> boot, tasks |-> tasks, orphanTimers |-> orphanTimers,
    recon |-> recon, reconnectTimer |-> reconnectTimer,
    shutdown |-> shutdown, orders |-> orders, trades |-> trades,
    feed |-> feed, wsPrivate |-> wsPrivate,
    apiFails |-> apiFails, dups |-> dups, drops |-> drops,
    extCancels |-> extCancels, ticks |-> ticks, env |-> env,
    failIn |-> failIn, orderCap |-> orderCap, envCap |-> envCap,
    cycleNo |-> cycleNo, applied |-> applied,
    credited |-> credited, replayed |-> replayed, orphaned |-> orphaned,
    passes |-> passes, passNo |-> passNo, unreconciled |-> unreconciled,
    cleared |-> cleared, api |-> api]

Commit(s) ==
    /\ openSellOrders' = s.openSellOrders
    /\ pendingDcaBuyOrder' = s.pendingDcaBuyOrder
    /\ currentAggressiveBuyOrder' = s.currentAggressiveBuyOrder
    /\ totalRealizedProfit' = s.totalRealizedProfit
    /\ isShuttingDown' = s.isShuttingDown
    /\ isInAggressiveBuyMode' = s.isInAggressiveBuyMode
    /\ aggressiveBuyRetryTimeout' = s.aggressiveBuyRetryTimeout
    /\ isReconnecting' = s.isReconnecting
    /\ pendingOrderOperations' = s.pendingOrderOperations
    /\ lastKnownPrice' = s.lastKnownPrice
    /\ boot' = s.boot
    /\ tasks' = s.tasks
    /\ orphanTimers' = s.orphanTimers
    /\ recon' = s.recon
    /\ reconnectTimer' = s.reconnectTimer
    /\ shutdown' = s.shutdown
    /\ orders' = s.orders
    /\ trades' = s.trades
    /\ feed' = s.feed
    /\ wsPrivate' = s.wsPrivate
    /\ apiFails' = s.apiFails
    /\ dups' = s.dups
    /\ drops' = s.drops
    /\ extCancels' = s.extCancels
    /\ ticks' = s.ticks
    /\ env' = s.env
    /\ failIn' = s.failIn
    /\ orderCap' = s.orderCap
    /\ cycleNo' = s.cycleNo
    /\ applied' = s.applied
    /\ credited' = s.credited
    /\ replayed' = s.replayed
    /\ envCap' = s.envCap
    /\ orphaned' = s.orphaned
    /\ passes' = s.passes
    /\ passNo' = s.passNo
    /\ cleared' = s.cleared
    /\ api' = s.api
    /\ unreconciled' = s.unreconciled

\* the bot as its constructor leaves it
Constructed ==
    /\ openSellOrders = {}
    /\ pendingDcaBuyOrder = NoOrder
    /\ currentAggressiveBuyOrder = NoOrder
    /\ totalRealizedProfit = 0
    /\ isShuttingDown = FALSE
    /\ isInAggressiveBuyMode = FALSE
    /\ aggressiveBuyRetryTimeout = NoTimer
    /\ isReconnecting = FALSE
    /\ pendingOrderOperations = {}
    /\ boot = "init"
    /\ tasks = EmptyBag
    /\ orphanTimers = EmptyBag
    /\ recon = IdlePass
    /\ reconnectTimer = FALSE
    /\ shutdown = IdleShutdown
    /\ trades = <<>>
    /\ feed = <<>>
    /\ wsPrivate = "open"
    /\ apiFails = 0
    /\ dups = 0
    /\ drops = 0
    /\ extCancels = 0
    /\ ticks = 0
    /\ env = 0
    /\ failIn = 0
    /\ cycleNo = 0
    /\ applied = EmptyBag
    /\ credited = {}
    /\ replayed = {}
    /\ orphaned = EmptyBag
    /\ passes = 0
    /\ passNo = 0
    /\ cleared = {}
    /\ unreconciled = FALSE
    /\ api = IdleRequest

\* start() has fetched the instrument and the initial price
Init ==
    /\ Constructed
    /\ lastKnownPrice = SetMin(Prices)
    /\ orders = <<>>
    /\ orderCap = MaxOrders
    /\ envCap = MaxEnv

InitCalm ==
    /\ Constructed
    /\ lastKnownPrice = SetMin(Prices)
    /\ orders = <<>>
    /\ orderCap = MaxOrdersCalm
    /\ envCap = 0

InitLink ==
    /\ Constructed
    /\ lastKnownPrice = SetMin(Prices)
    /\ orders = <<>>
    /\ orderCap = MaxOrdersLink
    /\ envCap = MaxEnvLink

\* an instrument whose price is a few hundred ticks
InitCoarse ==
    /\ Constructed
    /\ lastKnownPrice \in CoarsePrices
    /\ orders = <<>>
    /\ orderCap = MaxOrdersCoarse
    /\ envCap = 0

\* an order of the pair an earlier run left open at the venue
LeftOver(side) ==
    [side |-> side, kind |-> "old", req |-> SetMin(Prices) * 1000,
     px |-> SetMin(Prices), sz |-> calculateTradeSize, st |-> "open",
     forBuy |-> 0, cyc |-> 0]

\* a restart: the venue still holds an order of an earlier run
InitBoot ==
    /\ Constructed
    /\ lastKnownPrice = SetMin(Prices)
    /\ \E side \in {"buy", "sell"} : orders = <<LeftOver(side)>>
    /\ orderCap = MaxOrdersBoot
    /\ envCap = MaxEnv

InitLive ==
    /\ Constructed
    /\ lastKnownPrice = SetMin(Prices)
    /\ orders = <<>>
    /\ orderCap = MaxOrdersLive
    /\ envCap = MaxEnv

\* placeOrder calls followed request by request, the bot not started
InitApi ==
    /\ Constructed
    /\ lastKnownPrice = SetMin(Prices)
    /\ orders = <<>>
    /\ orderCap = 0
    /\ envCap = 0

InitFault ==
    /\ Constructed
    /\ lastKnownPrice = SetMin(Prices)
    /\ orders = <<>>
    /\ orderCap = MaxOrdersFault
    /\ envCap = MaxEnvFault

(* ---------------- the venue ---------------- *)
OpenIds(s) == {i \in 1..Len(s.orders) : s.orders[i].st = "open"}

Event(s, id, state) ==
    [ordId |-> id, side |-> s.orders[id].side, state |-> state,
     fillPx |-> s.orders[id].px, fillSz |-> s.orders[id].sz]

\* the venue reports an order's change on the Account Feed, if it is up
Push(s, id, state) ==
    IF s.wsPrivate = "open"
    THEN [s EXCEPT !.feed = Append(@, Event(s, id, state))]
    ELSE s

\* apiRequest throws (retries exhausted) on the call being made
Failing(s) == s.failIn = 1

\* one gateway call has been made
Called(s) == [s EXCEPT !.failIn = IF @ > 0 THEN @ - 1 ELSE 0]

(* ---------------- one request through apiRequest ---------------- *)
\* placeOrder calls apiRequest, which enters its loop and sends the request
apiRequest(a) ==
    [a EXCEPT !.pc = "sent", !.attempt = 1, !.sent = 1, !.log = <<>>,
              !.calls = @ + 1]

\* the request is answered. A response with status below 400 and code '0'
\* is returned to placeOrder, which returns the order or throws on its
\* sCode; everything else is thrown inside the try block and caught by it:
\* rethrown on the last attempt, followed by the delay otherwise.
apiRequestAnswered(a, r) ==
    LET a1 == [a EXCEPT !.log = Append(@, r)]
    IN IF r = "ok" THEN [a1 EXCEPT !.pc = "placed"]
       ELSE IF r = "sCode" THEN [a1 EXCEPT !.pc = "failed"]
       ELSE IF a.attempt = MaxApiRetries THEN [a1 EXCEPT !.pc = "failed"]
       ELSE [a1 EXCEPT !.pc = "delay"]

\* the delay is over: the next iteration sends the same request again
apiRequestRetry(a) ==
    [a EXCEPT !.pc = "sent", !.attempt = @ + 1, !.sent = @ + 1]

(* ---------------- suspended handlers and timers ---------------- *)
\* a handler suspended on a gateway call: k names the await it is at, res is
\* what the call will return (placeOrder: the order id, 0 for a throw;
\* cancelOrder: 1 for true, 0 for false); ord, px, sz are the handler's
\* orderUpdate.ordId, fillPrice and fillSize, sell its sellOrder.orderId
Task(k, ord, px, sz, tgt, replay) ==
    [k |-> k, res |-> 0, ord |-> ord, px |-> px, sz |-> sz,
     tgt |-> tgt, replay |-> replay, sell |-> 0]

AddTask(s, t) == [s EXCEPT !.tasks = @ (+) SetToBag({t})]
RemTask(s, t) == [s EXCEPT !.tasks = @ (-) SetToBag({t})]

\* this.aggressiveBuyRetryTimeout = setTimeout(...): a timer still pending
\* under the old handle keeps running, and can no longer be cleared
SetTimer(s, kind) ==
    [s EXCEPT
        !.orphanTimers =
            IF s.aggressiveBuyRetryTimeout.armed
            THEN @ (+) SetToBag({s.aggressiveBuyRetryTimeout.kind})
            ELSE @,
        !.aggressiveBuyRetryTimeout = [kind |-> kind, armed |-> TRUE]]

\* if (this.aggressiveBuyRetryTimeout) { clearTimeout(...); ... = null }
ClearTimer(s) == [s EXCEPT !.aggressiveBuyRetryTimeout = NoTimer]

\* placeOrder up to its await, for the handler t: the rounded price and size
\* go to the venue, which opens the order unless the call fails
placeOrder(s, t, side, kind, price, size) ==
    LET roundedPrice == RoundPrice(price)
        roundedSize == RoundSize(size)
        id == Len(s.orders) + 1
    IN IF ~ Failing(s) /\ Len(s.orders) < s.orderCap
       THEN AddTask([Called(s) EXCEPT !.orders = Append(@,
                        [side |-> side, kind |-> kind, req |-> price,
                         px |-> roundedPrice, sz |-> roundedSize,
                         st |-> "open", forBuy |-> t.ord,
                         cyc |-> s.cycleNo])],
                    [t EXCEPT !.res = id])
       ELSE AddTask(Called(s), [t EXCEPT !.res = 0])

\* cancelOrder up to its await: the id joins pendingOrderOperations, and the
\* venue cancels the order (sCode 0) if it is still open and the call gets
\* through
cancelOrder(s, t) ==
    LET s1 == Called([s EXCEPT !.pendingOrderOperations = @ \cup {t.tgt}])
    IN IF ~ Failing(s) /\ t.tgt \in OpenIds(s)
       THEN AddTask(Push([s1 EXCEPT !.orders[t.tgt].st = "cancelled"],
                         t.tgt, "cancelled"),
                    [t EXCEPT !.res = 1])
       ELSE AddTask(s1, [t EXCEPT !.res = 0])

\* cancelOrder's finally block
cancelOrderFinally(s, t) ==
    [s EXCEPT !.pendingOrderOperations = @ \ {t.tgt}]

\* what placeOrder returns for the order the venue opened
OrderResult(s, id) ==
    [orderId |-> id, side |-> s.orders[id].side, price |-> s.orders[id].px,
     size |-> s.orders[id].sz]

(* ---------------- the aggressive buy cycle ---------------- *)
\* lastKnownPrice is set by start() before the first cycle, so the
\* getCurrentPrice fallback is never taken
attemptAggressiveBuy(s) ==
    IF s.isShuttingDown \/ ~ s.isInAggressiveBuyMode THEN s
    ELSE placeOrder(s, Task("attempt", 0, s.lastKnownPrice,
                            calculateTradeSize, 0, FALSE),
                    "buy", "aggr", s.lastKnownPrice * 1000,
                    calculateTradeSize)

startAggressiveBuyCycle(s) ==
    IF s.isShuttingDown \/ s.isInAggressiveBuyMode THEN s
    ELSE attemptAggressiveBuy(
            [s EXCEPT !.isInAggressiveBuyMode = TRUE, !.cycleNo = @ + 1])

scheduleAggressiveBuyRetry(s) ==
    IF s.isShuttingDown \/ ~ s.isInAggressiveBuyMode THEN s
    ELSE SetTimer(s, "retry")

\* attemptAggressiveBuy after placeOrder has returned or thrown
attemptAggressiveBuyPlaced(s, t) ==
    IF t.res > 0
    THEN SetTimer([s EXCEPT !.currentAggressiveBuyOrder =
                                OrderResult(s, t.res)], "timeout")
    ELSE scheduleAggressiveBuyRetry(s)

handleAggressiveBuyTimeout(s) ==
    IF s.isShuttingDown \/ ~ s.isInAggressiveBuyMode THEN s
    ELSE IF s.currentAggressiveBuyOrder # NoOrder
         THEN cancelOrder(s, Task("timeout", 0, 0, 0,
                                  s.currentAggressiveBuyOrder.orderId, FALSE))
         ELSE [s EXCEPT !.isInAggressiveBuyMode = FALSE]

\* handleAggressiveBuyTimeout after cancelOrder has returned (true or false)
handleAggressiveBuyTimeoutCancelled(s, t) ==
    scheduleAggressiveBuyRetry(
        [cancelOrderFinally(s, t) EXCEPT
            !.currentAggressiveBuyOrder = NoOrder])

(* ---------------- order events ---------------- *)
\* processAfterBuyFill up to the await of the profit sell's placement
processAfterBuyFill(s, ev, replay) ==
    LET s1 == IF s.currentAggressiveBuyOrder.orderId = ev.ordId
              THEN ClearTimer([s EXCEPT
                        !.currentAggressiveBuyOrder = NoOrder,
                        !.isInAggressiveBuyMode = FALSE])
              ELSE s
    IN placeOrder(s1, Task("fillSell", ev.ordId, ev.fillPx, ev.fillSz, 0,
                           replay),
                  "sell", "sell", ProfitPrice(ev.fillPx), ev.fillSz)

\* the end of a processAfterBuyFill run; a run started by a reconciliation
\* pass hands control back to the pass
processAfterBuyFillDone(s, t) ==
    IF t.replay THEN [s EXCEPT !.recon.pc = "next"] ELSE s

\* step 3 of processAfterBuyFill up to the await of the placement
placeDcaBuy(s, t) ==
    placeOrder(s, [t EXCEPT !.k = "fillDca", !.tgt = 0],
               "buy", "dca", DcaPrice(t.px), t.sz)

\* processAfterBuyFill after the profit sell's placement
processAfterBuyFillSold(s, t) ==
    IF t.res = 0 THEN processAfterBuyFillDone(s, t)
    ELSE
      LET sellOrder == OrderResult(s, t.res)
          s1 == [s EXCEPT !.openSellOrders = @ \cup
                    {[orderId |-> sellOrder.orderId, side |-> sellOrder.side,
                      price |-> sellOrder.price, size |-> sellOrder.size,
                      buyPrice |-> t.px, buyOrderId |-> t.ord]}]
          t1 == [t EXCEPT !.sell = t.res]
      IN IF s1.pendingDcaBuyOrder # NoOrder
         THEN cancelOrder(s1, [t1 EXCEPT !.k = "fillCancel",
                                   !.tgt = s1.pendingDcaBuyOrder.orderId])
         ELSE placeDcaBuy(s1, t1)

\* processAfterBuyFill after the previous DCA buy's cancelOrder
processAfterBuyFillCancelled(s, t) ==
    placeDcaBuy([cancelOrderFinally(s, t) EXCEPT
                    !.pendingDcaBuyOrder = NoOrder], t)

\* processAfterBuyFill after the new DCA buy's placement
processAfterBuyFillDca(s, t) ==
    IF t.res = 0 THEN processAfterBuyFillDone(s, t)
    ELSE processAfterBuyFillDone(
            [s EXCEPT !.pendingDcaBuyOrder = OrderResult(s, t.res),
                      !.replayed = IF t.replay
                                   THEN @ \cup {[buy |-> t.ord,
                                                 dca |-> t.res]}
                                   ELSE @], t)

\* processAfterSellFill without line 751: the filled slot is not deleted
processAfterSellFillKeepSlot(s, ev) ==
    LET found == {x \in s.openSellOrders : x.orderId = ev.ordId}
    IN IF found = {} THEN s
       ELSE LET sellOrderInfo == CHOOSE x \in found : TRUE
            IN [s EXCEPT
                 !.totalRealizedProfit = @ +
                     (ev.fillPx - sellOrderInfo.buyPrice) * ev.fillSz,
                 !.credited = @ \cup
                     {[id |-> ev.ordId,
                       nth |-> CopiesIn(ev.ordId, s.applied),
                       left |-> Cardinality(s.openSellOrders \ found)]}]

\* processAfterSellFill without the call of line 761: no cycle is started
processAfterSellFillNoRestart(s, ev) ==
    LET found == {x \in s.openSellOrders : x.orderId = ev.ordId}
    IN IF found = {} THEN s
       ELSE LET sellOrderInfo == CHOOSE x \in found : TRUE
            IN [s EXCEPT
                 !.totalRealizedProfit = @ +
                     (ev.fillPx - sellOrderInfo.buyPrice) * ev.fillSz,
                 !.openSellOrders = @ \ found,
                 !.credited = @ \cup
                     {[id |-> ev.ordId,
                       nth |-> CopiesIn(ev.ordId, s.applied),
                       left |-> Cardinality(s.openSellOrders \ found)]}]

\* processAfterSellFill without the test of line 757: a cycle is started
\* whatever is left in the Sell Slot set
processAfterSellFillAlwaysRestart(s, ev) ==
    startAggressiveBuyCycle(processAfterSellFillNoRestart(s, ev))

processAfterSellFill(s, ev) ==
    LET found == {x \in s.openSellOrders : x.orderId = ev.ordId}
        s1 == IF found = {} THEN s
              ELSE LET sellOrderInfo == CHOOSE x \in found : TRUE
                   IN [s EXCEPT
                        !.totalRealizedProfit = @ +
                            (ev.fillPx - sellOrderInfo.buyPrice) * ev.fillSz,
                        !.openSellOrders = @ \ found,
                        !.credited = @ \cup
                     {[id |-> ev.ordId,
                       nth |-> CopiesIn(ev.ordId, s.applied),
                       left |-> Cardinality(s.openSellOrders \ found)]}]
    IN IF s1.openSellOrders = {} THEN startAggressiveBuyCycle(s1) ELSE s1

\* handleOrderCancellation taking a cancellation for the end of the
\* aggressive phase
handleOrderCancellationEndsCycle(s, ev) ==
    [s EXCEPT
        !.openSellOrders = {x \in @ : x.orderId # ev.ordId},
        !.pendingDcaBuyOrder =
            IF @.orderId = ev.ordId THEN NoOrder ELSE @,
        !.currentAggressiveBuyOrder =
            IF @.orderId = ev.ordId THEN NoOrder ELSE @,
        !.isInAggressiveBuyMode =
            IF s.currentAggressiveBuyOrder.orderId = ev.ordId
            THEN FALSE ELSE @]

handleOrderCancellation(s, ev) ==
    [s EXCEPT
        !.openSellOrders = {x \in @ : x.orderId # ev.ordId},
        !.pendingDcaBuyOrder =
            IF @.orderId = ev.ordId THEN NoOrder ELSE @,
        !.currentAggressiveBuyOrder =
            IF @.orderId = ev.ordId THEN NoOrder ELSE @]

handleOrderUpdate(s, ev, replay) ==
    IF ev.state = "filled"
    THEN LET s1 == [s EXCEPT !.applied = @ (+) SetToBag({ev.ordId})]
         IN IF ev.side = "buy" THEN processAfterBuyFill(s1, ev, replay)
            ELSE IF ev.side = "sell" THEN processAfterSellFill(s1, ev)
            ELSE s1
    ELSE IF ev.state = "cancelled" THEN handleOrderCancellation(s, ev)
    ELSE s

(* ---------------- reconciliation ---------------- *)
wasOrderFillProcessed(s, orderId, side) ==
    IF side = "buy"
    THEN \E x \in s.openSellOrders : x.buyOrderId = orderId
    ELSE IF side = "sell"
         THEN ~ \E x \in s.openSellOrders : x.orderId = orderId
         ELSE FALSE

\* the order ids the slots of s hold
Tracked(s) ==
    {x.orderId : x \in s.openSellOrders}
    \cup ({s.pendingDcaBuyOrder.orderId, s.currentAggressiveBuyOrder.orderId}
          \ {0})

\* processMissedCancellations looking at the Sell Slots only
processMissedCancellationsSellsOnly(s) ==
    LET serverOrderIds == s.recon.open.ids
        r == [s EXCEPT
                !.openSellOrders = {x \in @ : x.orderId \in serverOrderIds}]
    IN [r EXCEPT !.cleared = Tracked(s) \ Tracked(r)]

processMissedCancellations(s) ==
    LET serverOrderIds == s.recon.open.ids
        r == [s EXCEPT
                !.openSellOrders = {x \in @ : x.orderId \in serverOrderIds},
                !.pendingDcaBuyOrder =
                    IF @ # NoOrder /\ @.orderId \notin serverOrderIds
                    THEN NoOrder ELSE @,
                !.currentAggressiveBuyOrder =
                    IF @ # NoOrder /\ @.orderId \notin serverOrderIds
                    THEN NoOrder ELSE @]
    IN [r EXCEPT !.cleared = Tracked(s) \ Tracked(r)]

\* checkMissedOrdersDuringDisconnect's finally block, and the reconnect timer
\* handleWebSocketDisconnect sets when the pass has returned
checkMissedOrdersFinally(s) ==
    [s EXCEPT !.isReconnecting = FALSE, !.recon = IdlePass,
              !.reconnectTimer = TRUE, !.passes = @ - 1,
              !.unreconciled = FALSE]

\* the loop of processMissedOrphanedOrders: cancel the next orphan, awaited
processMissedOrphanedOrdersNext(s) ==
    IF s.recon.orphans = {} THEN checkMissedOrdersFinally(s)
    ELSE LET o == SetMin(s.recon.orphans)
         IN cancelOrder([s EXCEPT !.recon.pc = "orphan",
                                  !.recon.orphans = @ \ {o},
                                  !.orphaned = @ (+) SetToBag({o})],
                        Task("orphan", 0, 0, 0, o, FALSE))

processMissedOrphanedOrders(s) ==
    LET trackedOrderIds ==
            {x.orderId : x \in s.openSellOrders}
            \cup (IF s.pendingDcaBuyOrder # NoOrder
                  THEN {s.pendingDcaBuyOrder.orderId} ELSE {})
            \cup (IF s.currentAggressiveBuyOrder # NoOrder
                  THEN {s.currentAggressiveBuyOrder.orderId} ELSE {})
    IN processMissedOrphanedOrdersNext(
          [s EXCEPT !.recon.orphans = s.recon.open.ids \ trackedOrderIds])

\* the loop of processMissedFills over the trades not yet looked at, then
\* the rest of checkMissedOrdersDuringDisconnect; a replayed buy fill
\* suspends the pass until its handler has finished
RECURSIVE processMissedFills(_)
processMissedFills(s) ==
    IF s.recon.trades = <<>>
    THEN processMissedOrphanedOrders(processMissedCancellations(s))
    ELSE
      LET trade == Head(s.recon.trades)
          s1 == [s EXCEPT !.recon.trades = Tail(@)]
          syntheticUpdate ==
              [ordId |-> trade.ordId, side |-> trade.side,
               state |-> "filled", fillPx |-> trade.fillPx,
               fillSz |-> trade.fillSz]
      IN IF \A x \in 1..Len(s.trades) : s.trades[x].ordId # trade.ordId
         THEN processMissedFills(s1)
         ELSE IF wasOrderFillProcessed(s1, trade.ordId, trade.side)
              THEN processMissedFills(s1)
         ELSE IF trade.side = "buy"
              THEN handleOrderUpdate([s1 EXCEPT !.recon.pc = "replay"],
                                     syntheticUpdate, TRUE)
         ELSE processMissedFills(handleOrderUpdate(s1, syntheticUpdate, TRUE))

\* getOpenOrders as the venue answers it; a failure rejects Promise.all
getOpenOrders(s) ==
    IF Failing(s) THEN [ok |-> FALSE, ids |-> {}]
    ELSE [ok |-> TRUE, ids |-> OpenIds(s)]

\* getRecentTradesSince: the fill history, newest first when newestFirst,
\* and the empty list when the request fails
getRecentTradesSince(s, newestFirst) ==
    IF Failing(s) THEN <<>>
    ELSE IF newestFirst
         THEN [i \in 1..Len(s.trades) |-> s.trades[Len(s.trades) + 1 - i]]
         ELSE s.trades

\* checkMissedOrdersDuringDisconnect up to the await of Promise.all
checkMissedOrdersDuringDisconnect(s, newestFirst) ==
    LET open == getOpenOrders(s)
        s1 == Called(s)
        list == getRecentTradesSince(s1, newestFirst)
    IN [Called(s1) EXCEPT
          !.recon = [IdlePass EXCEPT !.pc = "fetch", !.open = open,
                                     !.trades = list]]

\* checkMissedOrdersDuringDisconnect with the flag reset at the end of the
\* try block and no finally block
checkMissedOrdersFetchedNoFinally(s) ==
    IF ~ s.recon.open.ok
    THEN [s EXCEPT !.recon = IdlePass, !.reconnectTimer = TRUE,
                   !.passes = @ - 1, !.unreconciled = FALSE]
    ELSE processMissedFills(s)

\* checkMissedOrdersDuringDisconnect after Promise.all has settled
checkMissedOrdersFetched(s) ==
    IF ~ s.recon.open.ok THEN checkMissedOrdersFinally(s)
    ELSE processMissedFills(s)

\* handleWebSocketDisconnect without the isReconnecting test of line 314 and
\* with the reconnect timer of line 326 set before the pass is awaited
handleWebSocketDisconnectEager(s, newestFirst) ==
    IF s.isShuttingDown THEN s
    ELSE checkMissedOrdersDuringDisconnect(
            [s EXCEPT !.isReconnecting = TRUE, !.replayed = {},
                      !.orphaned = EmptyBag, !.passes = @ + 1,
                      !.passNo = @ + 1, !.cleared = {},
                      !.reconnectTimer = TRUE],
            newestFirst)

handleWebSocketDisconnect(s, newestFirst) ==
    IF s.isReconnecting \/ s.isShuttingDown THEN s
    ELSE checkMissedOrdersDuringDisconnect(
            [s EXCEPT !.isReconnecting = TRUE, !.replayed = {},
                      !.orphaned = EmptyBag, !.passes = @ + 1,
                      !.passNo = @ + 1, !.cleared = {}],
            newestFirst)

(* ---------------- startup and shutdown ---------------- *)
\* cancelAllOrdersAndStartFresh at the end of start(): every open order the
\* fetch returned is cancelled, except those in refused, whose cancelOrder
\* returns false; then the registry is cleared and the first cycle started.
\* Nothing of this happens when getOpenOrders throws (ok is FALSE). The
\* cancellation events of the earlier run's orders are left out: no slot
\* tracks them, so handleOrderUpdate does nothing with them.
cancelAllOrdersAndStartFresh(s, ok, refused) ==
    IF ok
    THEN startAggressiveBuyCycle(ClearTimer(
            [s EXCEPT !.boot = "running",
                      !.orders = [i \in DOMAIN @ |->
                          IF i \in OpenIds(s) \ refused
                          THEN [@[i] EXCEPT !.st = "cancelled"]
                          ELSE @[i]],
                      !.openSellOrders = {},
                      !.pendingDcaBuyOrder = NoOrder,
                      !.currentAggressiveBuyOrder = NoOrder,
                      !.totalRealizedProfit = 0,
                      !.pendingOrderOperations = {},
                      !.isInAggressiveBuyMode = FALSE]))
    ELSE [s EXCEPT !.boot = "running", !.apiFails = @ + 1, !.env = @ + 1]

\* as above, with one of the cancel calls failing
cancelAllOrdersAndStartFreshRefused(s, id) ==
    [cancelAllOrdersAndStartFresh(s, TRUE, {id})
        EXCEPT !.apiFails = @ + 1, !.env = @ + 1]

\* process.exit
Exit(s) == [s EXCEPT !.boot = "exited", !.shutdown.pc = "exited"]

\* the loop over the fetched open orders, each cancel awaited
gracefulShutdownNext(s) ==
    IF s.shutdown.open = {} THEN Exit(s)
    ELSE LET o == SetMin(s.shutdown.open)
         IN cancelOrder([s EXCEPT !.shutdown.pc = "cancel",
                                  !.shutdown.open = @ \ {o}],
                        Task("shutdown", 0, 0, 0, o, FALSE))

\* gracefulShutdown's loop test; leaving the loop it calls getOpenOrders.
\* Time is not modelled, so waitCount is kept only as waitedOut: whether its
\* ten polls are used up
gracefulShutdownWait(s, waitedOut) ==
    IF s.pendingOrderOperations # {} /\ ~ waitedOut
    THEN [s EXCEPT !.shutdown.pc = "wait"]
    ELSE [Called(s) EXCEPT !.shutdown.pc = "fetch",
                           !.shutdown.open = getOpenOrders(s)]

\* gracefulShutdown after getOpenOrders has returned or thrown
gracefulShutdownFetched(s) ==
    IF ~ s.shutdown.open.ok THEN Exit(s)
    ELSE gracefulShutdownNext([s EXCEPT !.shutdown.open = @.ids])

gracefulShutdown(s) ==
    IF s.isShuttingDown THEN s
    ELSE gracefulShutdownWait(ClearTimer(
            [s EXCEPT !.isShuttingDown = TRUE,
                      !.isInAggressiveBuyMode = FALSE]), FALSE)

(* ---------------- actions: the venue and the feeds ---------------- *)
Running == boot = "running"

Returned(k) == {t \in BagToSet(tasks) : t.k = k}

EnvLeft == env < envCap

BumpEnv(s) == [s EXCEPT !.env = @ + 1]

\* the venue fills an open order
VenueFill ==
    /\ Running
    /\ Len(feed) < MaxFeed
    /\ \E id \in OpenIds(Cur) :
          Commit(Push([Cur EXCEPT
                        !.orders[id].st = "filled",
                        !.trades = Append(@,
                            [ordId |-> id, side |-> orders[id].side,
                             fillPx |-> orders[id].px,
                             fillSz |-> orders[id].sz])], id, "filled"))

\* an open order is cancelled at the venue, not by the bot
VenueCancel ==
    /\ Running
    /\ Len(feed) < MaxFeed
    /\ EnvLeft
    /\ extCancels < MaxExtCancel
    /\ \E id \in OpenIds(Cur) :
          Commit(Push(BumpEnv([Cur EXCEPT !.orders[id].st = "cancelled",
                                          !.extCancels = @ + 1]),
                      id, "cancelled"))

\* one of the next gateway calls will fail for a transient reason
ArmFailure ==
    /\ Running
    /\ EnvLeft
    /\ apiFails < MaxApiFail
    /\ failIn = 0
    /\ \E n \in 1..2 :
          Commit(BumpEnv([Cur EXCEPT !.failIn = n, !.apiFails = @ + 1]))

\* the public feed's ticker message: updatePrice
Tick ==
    /\ Running
    /\ EnvLeft
    /\ ticks < MaxTicks
    /\ \E p \in Prices \ {lastKnownPrice} :
          Commit(BumpEnv([Cur EXCEPT !.lastKnownPrice = p, !.ticks = @ + 1]))

\* a private-feed message with order data: lastSuccessfulWSMessage = now,
\* then handleOrderUpdate
Deliver ==
    /\ Running
    /\ wsPrivate = "open"
    /\ feed # <<>>
    /\ Commit(handleOrderUpdate(
                [Cur EXCEPT !.feed = Tail(@), !.trades = <<>>],
                Head(feed), FALSE))

\* the feed delivers the event and will deliver it once more
DeliverDup ==
    /\ Running
    /\ wsPrivate = "open"
    /\ feed # <<>>
    /\ EnvLeft
    /\ dups < MaxDup
    /\ Commit(handleOrderUpdate(
                BumpEnv([Cur EXCEPT !.dups = @ + 1, !.trades = <<>>]),
                Head(feed), FALSE))

\* the private socket's close event; events in flight are lost
WsClose ==
    /\ Running
    /\ wsPrivate \in {"open", "connecting"}
    /\ EnvLeft
    /\ drops < MaxDrops
    /\ LET s1 == BumpEnv([Cur EXCEPT !.wsPrivate = "closed", !.feed = <<>>,
                                     !.drops = @ + 1,
                                     !.unreconciled = TRUE])
       IN IF isShuttingDown THEN Commit(s1)
          ELSE \E newestFirst \in BOOLEAN :
                  Commit(handleWebSocketDisconnect(s1, newestFirst))

\* reconnectPrivateWebSocket: the old socket loses its listeners and is
\* closed, a new one is set up
reconnectPrivateWebSocket(s) ==
    IF s.isShuttingDown THEN s
    ELSE [s EXCEPT !.wsPrivate = "connecting", !.feed = <<>>]

\* checkWebSocketHealth finds the open private socket silent for two ping
\* intervals (only messages count, pongs do not) and reconnects it
HealthReconnect ==
    /\ Running
    /\ wsPrivate = "open"
    /\ ~ isShuttingDown
    /\ EnvLeft
    /\ drops < MaxDrops
    /\ Commit(reconnectPrivateWebSocket(
                BumpEnv([Cur EXCEPT !.drops = @ + 1,
                                    !.unreconciled = TRUE])))

\* the timer set by handleWebSocketDisconnect: reconnectPrivateWebSocket
ReconnectFire ==
    /\ Running
    /\ reconnectTimer
    /\ Commit(reconnectPrivateWebSocket(
                [Cur EXCEPT !.reconnectTimer = FALSE]))

\* the login response on the new socket: lastSuccessfulWSMessage = now
WsLogin ==
    /\ Running
    /\ wsPrivate = "connecting"
    /\ Commit([Cur EXCEPT !.wsPrivate = "open", !.trades = <<>>])

(* ---------------- actions: reconciliation ---------------- *)
\* Promise.all settles
PassFetched ==
    /\ Running
    /\ recon.pc = "fetch"
    /\ Commit(checkMissedOrdersFetched(Cur))

\* the pass goes on after a replayed buy fill's handler has finished
PassNext ==
    /\ Running
    /\ recon.pc = "next"
    /\ Commit(processMissedFills(Cur))

OrphanResume ==
    /\ Running
    /\ \E t \in Returned("orphan") :
          Commit(processMissedOrphanedOrdersNext(
                    cancelOrderFinally(RemTask(Cur, t), t)))

(* ---------------- actions: handlers resumed by a response ---------------- *)
AttemptResume ==
    /\ Running
    /\ \E t \in Returned("attempt") :
          Commit(attemptAggressiveBuyPlaced(RemTask(Cur, t), t))

TimeoutResume ==
    /\ Running
    /\ \E t \in Returned("timeout") :
          Commit(handleAggressiveBuyTimeoutCancelled(RemTask(Cur, t), t))

FillSellResume ==
    /\ Running
    /\ \E t \in Returned("fillSell") :
          Commit(processAfterBuyFillSold(RemTask(Cur, t), t))

FillCancelResume ==
    /\ Running
    /\ \E t \in Returned("fillCancel") :
          Commit(processAfterBuyFillCancelled(RemTask(Cur, t), t))

FillDcaResume ==
    /\ Running
    /\ \E t \in Returned("fillDca") :
          Commit(processAfterBuyFillDca(RemTask(Cur, t), t))

(* ---------------- actions: timers ---------------- *)
TimerHandler(s, kind) ==
    IF kind = "timeout" THEN handleAggressiveBuyTimeout(s)
    ELSE attemptAggressiveBuy(s)

\* the timer of the latest handle fires; the handle stays in the field
TimerFire ==
    /\ Running
    /\ aggressiveBuyRetryTimeout.armed
    /\ Commit(TimerHandler(
                [Cur EXCEPT !.aggressiveBuyRetryTimeout.armed = FALSE],
                aggressiveBuyRetryTimeout.kind))

\* a timer whose handle was overwritten fires
OrphanTimerFire ==
    /\ Running
    /\ \E kind \in BagToSet(orphanTimers) :
          Commit(TimerHandler(
                    [Cur EXCEPT !.orphanTimers = @ (-) SetToBag({kind})],
                    kind))

(* ---------------- actions: startup and shutdown ---------------- *)
Start ==
    /\ boot = "init"
    /\ Commit(cancelAllOrdersAndStartFresh(Cur, TRUE, {}))

\* start() with getOpenOrders throwing
StartFails ==
    /\ boot = "init"
    /\ EnvLeft
    /\ apiFails < MaxApiFail
    /\ Commit(cancelAllOrdersAndStartFresh(Cur, FALSE, {}))

\* start() with the venue refusing to cancel one order of an earlier run
StartCancelRefused ==
    /\ boot = "init"
    /\ EnvLeft
    /\ apiFails < MaxApiFail
    /\ \E id \in OpenIds(Cur) :
          Commit(cancelAllOrdersAndStartFreshRefused(Cur, id))

\* SIGINT or SIGTERM
Signal ==
    /\ Running
    /\ EnvLeft
    /\ ~ isShuttingDown
    /\ Commit(gracefulShutdown(BumpEnv(Cur)))

\* the 500 ms timer of the wait loop
ShutdownPoll ==
    /\ Running
    /\ shutdown.pc = "wait"
    /\ \E waitedOut \in BOOLEAN :
          Commit(gracefulShutdownWait(Cur, waitedOut))

ShutdownFetched ==
    /\ Running
    /\ shutdown.pc = "fetch"
    /\ Commit(gracefulShutdownFetched(Cur))

ShutdownCancelResume ==
    /\ Running
    /\ \E t \in Returned("shutdown") :
          Commit(gracefulShutdownNext(
                    cancelOrderFinally(RemTask(Cur, t), t)))

(* ---------------- actions: one request ---------------- *)
PlaceCall ==
    /\ api.pc \in {"idle", "placed", "failed"}
    /\ api.calls < MaxCalls
    /\ Commit([Cur EXCEPT !.api = apiRequest(@)])

Answer ==
    /\ api.pc = "sent"
    /\ \E r \in Answers : Commit([Cur EXCEPT !.api = apiRequestAnswered(@, r)])

RetryDelayOver ==
    /\ api.pc = "delay"
    /\ Commit([Cur EXCEPT !.api = apiRequestRetry(@)])

(* ---------------- specifications ---------------- *)
\* a run the environment leaves alone: every call succeeds, every event is
\* delivered once, the connection stays up
NextCalm ==
    \/ Start
    \/ VenueFill
    \/ Deliver
    \/ AttemptResume
    \/ TimeoutResume
    \/ FillSellResume
    \/ FillCancelResume
    \/ FillDcaResume
    \/ TimerFire
    \/ OrphanTimerFire

SpecCalm == InitCalm /\ [][NextCalm]_vars

\* every run: calls may fail, the Account Feed delivers at least once and may
\* drop, orders may be cancelled at the venue, the process may be signalled
Next ==
    \/ NextCalm
    \/ StartFails
    \/ VenueCancel
    \/ ArmFailure
    \/ Tick
    \/ DeliverDup
    \/ WsClose
    \/ HealthReconnect
    \/ ReconnectFire
    \/ WsLogin
    \/ PassFetched
    \/ PassNext
    \/ OrphanResume
    \/ Signal
    \/ ShutdownPoll
    \/ ShutdownFetched
    \/ ShutdownCancelResume

Spec == Init /\ [][Next]_vars

\* a run in which only the private connection is disturbed
NextLink ==
    \/ NextCalm
    \/ WsClose
    \/ HealthReconnect
    \/ ReconnectFire
    \/ WsLogin
    \/ PassFetched
    \/ PassNext
    \/ OrphanResume

SpecLink == InitLink /\ [][NextLink]_vars

\* a calm run on an instrument whose price is a few hundred ticks
SpecCoarse == InitCoarse /\ [][NextCalm]_vars

\* a restart over an order an earlier run left open
NextBoot ==
    \/ NextCalm
    \/ StartFails
    \/ StartCancelRefused
    \/ VenueCancel

SpecBoot == InitBoot /\ [][NextBoot]_vars

\* a run with failing calls and lost connections; at MaxOrdersFault orders
\* no buy fill finds a resting DCA order, so processAfterBuyFill never
\* makes its cancel call
NextFault ==
    \/ Start
    \/ VenueFill
    \/ Deliver
    \/ AttemptResume
    \/ TimeoutResume
    \/ FillSellResume
    \/ FillDcaResume
    \/ TimerFire
    \/ OrphanTimerFire
    \/ ArmFailure
    \/ WsClose
    \/ ReconnectFire
    \/ WsLogin
    \/ PassFetched
    \/ PassNext
    \/ OrphanResume

SpecFault == InitFault /\ [][NextFault]_vars

\* a run followed until it rests: the venue cancels, the connection drops
NextLive ==
    \/ Start
    \/ VenueFill
    \/ Deliver
    \/ AttemptResume
    \/ TimeoutResume
    \/ FillSellResume
    \/ FillDcaResume
    \/ TimerFire
    \/ OrphanTimerFire
    \/ VenueCancel
    \/ WsClose
    \/ ReconnectFire
    \/ WsLogin
    \/ PassFetched
    \/ PassNext
    \/ OrphanResume

\* a callback of the bot that is ready: a response that has arrived resumes
\* its handler, a timer that is due fires, a message that has arrived is
\* handled
Callback ==
    \/ Start
    \/ Deliver
    \/ AttemptResume
    \/ TimeoutResume
    \/ FillSellResume
    \/ FillDcaResume
    \/ TimerFire
    \/ OrphanTimerFire
    \/ ReconnectFire
    \/ WsLogin
    \/ PassFetched
    \/ PassNext
    \/ OrphanResume

\* the event loop does not stop while a callback is ready; nothing is
\* assumed of the venue and the network
Scheduling == WF_vars(Callback)

SpecLive == InitLive /\ [][NextLive]_vars /\ Scheduling

\* a reconciliation pass can go on: Promise.all has settled, or the handler
\* of a replayed buy fill has finished, or the response to a call the pass
\* (or the handler it awaits) is suspended on has arrived
PassReady ==
    /\ Running
    /\ \/ recon.pc \in {"fetch", "next"}
       \/ recon.pc = "orphan" /\ Returned("orphan") # {}
       \/ /\ recon.pc = "replay"
          /\ \E t \in BagToSet(tasks) :
                t.replay /\ t.k \in {"fillSell", "fillCancel", "fillDca"}

\* a step in which a pass goes on (PassFetched, PassNext, OrphanResume), or
\* the handler it awaits does (FillSellResume, FillCancelResume,
\* FillDcaResume of a replayed fill)
PassMoves ==
    \/ recon' # recon
    \/ \E t \in BagToSet(tasks) :
          t.replay /\ CopiesIn(t, tasks') < CopiesIn(t, tasks)

\* every gateway call a reconciliation pass waits for returns or fails, and
\* the event loop then resumes the pass: weak fairness of the pass's steps,
\* written out with PassReady for their enabling condition
PassScheduling == []<>(~ PassReady) \/ []<><<PassMoves>>_vars

SpecPass == InitFault /\ [][NextFault]_vars /\ PassScheduling

NextApi ==
    \/ PlaceCall
    \/ Answer
    \/ RetryDelayOver

SpecApi == InitApi /\ [][NextApi]_vars

(* ---------------- properties ---------------- *)
\* what the sell order o earned over the buy it was placed for
Gain(o) == (orders[o].px - orders[orders[o].forBuy].px) * orders[o].sz

RECURSIVE SumGain(_)
SumGain(S) ==
    IF S = {} THEN 0
    ELSE LET o == CHOOSE x \in S : TRUE IN Gain(o) + SumGain(S \ {o})

\* no handler is suspended, no event is in flight, no pass or shutdown runs
Quiescent ==
    /\ tasks = EmptyBag
    /\ feed = <<>>
    /\ recon.pc = "idle"
    /\ shutdown.pc = "none"

\* C1: however often a sell's fill event is applied (delivered twice, or
\* delivered and replayed), the Realized Profit Accumulator holds the gain of
\* every sell whose fill was applied exactly once: a second application of
\* the same event adds nothing.
C1_ProfitCreditedOnce ==
    totalRealizedProfit = SumGain({c.id : c \in credited})

\* C1's case: the fill event of a sell was applied, which credited its
\* profit, and then applied again
C1_SellFillAppliedTwice ==
    \E c \in credited : c.nth = 1 /\ CopiesIn(c.id, applied) >= 2

\* C2: in every state at most one Sell Slot has a given buyOrderId, and at
\* most one profit sell has been placed for a given filled buy, also when the
\* buy's fill event is applied twice.
C2_OneSlotPerBuyFill ==
    \A b \in 1..Len(orders) :
        /\ Cardinality({x \in openSellOrders : x.buyOrderId = b}) <= 1
        /\ Cardinality({i \in 1..Len(orders) :
                           orders[i].kind = "sell" /\ orders[i].forBuy = b}) <= 1

\* C3: once the first cycle has been started, whenever the bot is at rest (no
\* handler suspended, no event in flight) the phase is AggressiveBuying
\* exactly when there is no Sell Slot.
C3_AggressiveIffNoSlots ==
    (Running /\ cycleNo > 0 /\ Quiescent)
        => (isInAggressiveBuyMode <=> openSellOrders = {})

\* aggressive buy orders open at the venue
OpenAggressive == {i \in OpenIds(Cur) : orders[i].kind = "aggr"}

\* averaging-down buy orders open at the venue
OpenDca == {i \in OpenIds(Cur) : orders[i].kind = "dca"}

\* C4: under every interleaving of placements, the immediate-fill timer,
\* cancel responses (confirmed or failed), fill events and cycle starts,
\* there are never two aggressive buy orders open at the venue at once.
C4_OneAggressiveOpen == Cardinality(OpenAggressive) <= 1

\* C5: whatever the order in which the fill event, the timer and the
\* responses are delivered, no cycle of the retry loop ends up with more than
\* one filled aggressive buy order.
C5_OneAggressiveFillPerCycle ==
    \A c \in 1..cycleNo :
        Cardinality({i \in 1..Len(orders) :
                        /\ orders[i].kind = "aggr"
                        /\ orders[i].cyc = c
                        /\ orders[i].st = "filled"}) <= 1

\* C6: at every instant at most one averaging-down buy is open at the venue,
\* and an open one is the order in the Averaging-Down Slot (or the one whose
\* placement response the handler that placed it is about to record), also
\* when two buy-fill handlers overlap.
C6_OneDcaOpen ==
    /\ Cardinality(OpenDca) <= 1
    /\ \A i \in OpenDca :
          \/ pendingDcaBuyOrder.orderId = i
          \/ \E t \in BagToSet(tasks) : t.k = "fillDca" /\ t.res = i

\* px is the multiple of the tick size nearest to pm milli-units
NearestTick(px, pm) ==
    /\ px % TickSz = 0
    /\ 2 * (px * 1000 - pm) <= TickSz * 1000
    /\ 2 * (pm - px * 1000) <= TickSz * 1000

\* sz is the multiple of the lot size nearest to s
NearestLot(sz, s) ==
    /\ sz % LotSz = 0
    /\ 2 * (sz - s) <= LotSz
    /\ 2 * (s - sz) <= LotSz

\* the orders processAfterBuyFill has placed for the buy b
SellsFor(b) ==
    {i \in 1..Len(orders) : orders[i].kind = "sell" /\ orders[i].forBuy = b}

DcasFor(b) ==
    {i \in 1..Len(orders) : orders[i].kind = "dca" /\ orders[i].forBuy = b}

\* every profit sell was asked for at the filled price plus the profit
\* margin and every averaging-down buy at the filled price less the DCA
\* margin, and stands at the nearest tick to that, both of the fill's size;
\* no application of a fill has placed more than one of each; every Sell
\* Slot says what its order is
C7_Placed ==
    /\ \A b \in 1..Len(orders) :
          /\ Cardinality(SellsFor(b)) <= CopiesIn(b, applied)
          /\ Cardinality(DcasFor(b)) <= CopiesIn(b, applied)
          /\ \A i \in SellsFor(b) :
                /\ orders[i].side = "sell"
                /\ orders[i].req = orders[b].px * (1000 + ProfitPermille)
                /\ NearestTick(orders[i].px, orders[i].req)
                /\ NearestLot(orders[i].sz, orders[b].sz)
          /\ \A i \in DcasFor(b) :
                /\ orders[i].side = "buy"
                /\ orders[i].req = orders[b].px * (1000 - DcaPermille)
                /\ NearestTick(orders[i].px, orders[i].req)
                /\ NearestLot(orders[i].sz, orders[b].sz)
    /\ \A x \in openSellOrders :
          /\ x.orderId \in SellsFor(x.buyOrderId)
          /\ x.side = "sell"
          /\ x.price = orders[x.orderId].px
          /\ x.size = orders[x.orderId].sz
          /\ x.buyPrice = orders[x.buyOrderId].px

\* the handler t goes on in this step
Resumes(t) == CopiesIn(t, tasks') < CopiesIn(t, tasks)

\* a handler told that its sell was placed records the Sell Slot, and one
\* told that its averaging-down buy was placed too has placed exactly that
\* pair and records the buy in the Averaging-Down Slot
C7_Recorded ==
    \A t \in BagToSet(tasks) :
        /\ (t.k = "fillSell" /\ t.res > 0 /\ Resumes(t)) =>
              \E x \in openSellOrders' :
                 /\ x.orderId = t.res
                 /\ x.buyPrice = t.px
                 /\ x.buyOrderId = t.ord
        /\ (t.k = "fillDca" /\ t.res > 0 /\ Resumes(t)) =>
              /\ t.sell \in SellsFor(t.ord)
              /\ t.res \in DcasFor(t.ord)
              /\ pendingDcaBuyOrder' =
                    [orderId |-> t.res, side |-> "buy",
                     price |-> orders[t.res].px, size |-> orders[t.res].sz]

\* C7 (as amended): for a buy fill at p of size s whose two placements both
\* succeed, one sell is placed at p * (1 + profitMargin) and one buy at
\* p * (1 - dcaMargin), each rounded to the nearest tick, both of size s
\* rounded to the nearest lot; the sell is recorded as a Sell Slot with
\* buyPrice p and buyOrderId the filled order, the buy as the
\* Averaging-Down Slot.
C7_PairPlacedRounded == [][C7_Placed' /\ C7_Recorded]_vars

\* C7's case: a pair placed for a fill at a price whose margins fall off the
\* tick grid is on record
C7_RoundedPairOnRecord ==
    \E x \in openSellOrders :
        /\ pendingDcaBuyOrder.orderId \in DcasFor(x.buyOrderId)
        /\ x.price * 1000 # x.buyPrice * (1000 + ProfitPermille)

\* C7 as stated: the sell stands at exactly p * (1 + profitMargin) and the buy
\* at exactly p * (1 - dcaMargin)
C7_ExactPrices ==
    \A b \in 1..Len(orders) :
        /\ \A i \in SellsFor(b) :
              orders[i].px * 1000 = orders[b].px * (1000 + ProfitPermille)
        /\ \A i \in DcasFor(b) :
              orders[i].px * 1000 = orders[b].px * (1000 - DcaPermille)

\* the fill event of the order id, and no other, is handled in this step
Handles(id) == applied' = applied (+) SetToBag({id})

\* an aggressive buy placement is issued in this step
AttemptIssued ==
    \E t \in BagToSet(tasks') :
        t.k = "attempt" /\ CopiesIn(t, tasks') > CopiesIn(t, tasks)

\* the only Sell Slot is removed and its profit added
C8_LastSlotCredited(x) ==
    /\ openSellOrders' = {}
    /\ totalRealizedProfit' = totalRealizedProfit
          + (orders[x.orderId].px - x.buyPrice) * orders[x.orderId].sz

\* C8 (as amended): with exactly one Sell Slot, handling the fill event of
\* its sell removes the slot and adds (fillPrice - buyPrice) * fillSize to
\* the profit; unless shutdown has begun the phase is AggressiveBuying
\* afterwards, and if it was Holding a new cycle is started with the
\* placement of an aggressive buy.
C8_LastSellRestarts ==
    [][\A x \in openSellOrders :
          (openSellOrders = {x} /\ Handles(x.orderId)) =>
              /\ C8_LastSlotCredited(x)
              /\ ~ isShuttingDown =>
                    /\ isInAggressiveBuyMode'
                    /\ ~ isInAggressiveBuyMode =>
                          (cycleNo' = cycleNo + 1 /\ AttemptIssued)]_vars

\* C8's case: the fill of the only Sell Slot's order was handled, and the
\* bot is in a later cycle
C8_LastSellHandled ==
    /\ \E c \in credited : c.left = 0
    /\ isInAggressiveBuyMode
    /\ cycleNo >= 2

\* C8 as stated: the phase is AggressiveBuying after the step, always
C8_LastSellAlwaysRestarts ==
    [][\A x \in openSellOrders :
          (openSellOrders = {x} /\ Handles(x.orderId)) =>
              (C8_LastSlotCredited(x) /\ isInAggressiveBuyMode')]_vars

\* C9: with two or more Sell Slots, handling the fill event of one of them
\* as the Account Feed delivers it removes that slot and no other, adds its
\* profit, leaves the phase as it is, and places no order.
C9_OtherSlotsStay ==
    [][\A x \in openSellOrders :
          (/\ Cardinality(openSellOrders) >= 2
           /\ recon.pc = "idle"
           /\ Handles(x.orderId)) =>
              /\ openSellOrders' = openSellOrders \ {x}
              /\ totalRealizedProfit' = totalRealizedProfit
                    + (orders[x.orderId].px - x.buyPrice) * orders[x.orderId].sz
              /\ isInAggressiveBuyMode' = isInAggressiveBuyMode
              /\ cycleNo' = cycleNo
              /\ Len(orders') = Len(orders)
              /\ tasks' = tasks]_vars

\* C9's case: a sell's fill was handled while other Sell Slots stood, and
\* the phase is Holding
C9_OneOfSeveralHandled ==
    /\ \E c \in credited : c.left >= 1
    /\ openSellOrders # {}
    /\ ~ isInAggressiveBuyMode

\* C10: when a reconciliation pass that replayed one missed buy fill, both
\* placements confirmed, has ended, the Position Registry is what live
\* delivery of that fill leaves: a Sell Slot linked to the filled buy, and
\* the averaging-down buy placed for it in the Averaging-Down Slot.
C10_ReplayLikeLive ==
    [][(recon.pc # "idle" /\ recon'.pc = "idle"
            /\ Cardinality(replayed') = 1) =>
          \A r \in replayed' :
              /\ \E x \in openSellOrders' : x.buyOrderId = r.buy
              /\ pendingDcaBuyOrder'.orderId = r.dca]_vars

\* the order ids the Position Registry holds
TrackedIds ==
    {x.orderId : x \in openSellOrders}
    \cup ({pendingDcaBuyOrder.orderId, currentAggressiveBuyOrder.orderId}
          \ {0})

\* C11: an order the reconciliation pass found open at the venue and not
\* tracked is cancelled once by that pass, and its id is in no slot of the
\* Position Registry afterwards.
C11_OrphanCancelledOnce ==
    \A o \in BagToSet(orphaned) :
        CopiesIn(o, orphaned) = 1 /\ o \notin TrackedIds

\* C12: at most one reconciliation pass is in progress, whatever the order
\* of close events, forced reconnects and reconnect timers.
C12_OnePassAtATime == passes <= 1

\* a second pass runs, the first one having finished
C12_SecondPassRuns == passNo = 2 /\ passes = 1 /\ recon.pc = "fetch"

\* C13: a fill event of the Account Feed is handled only on a connection
\* that is the first one or that a completed reconciliation pass preceded:
\* after the connection was lost or replaced, a pass has completed before
\* the next event is handled.
C13_ReconciledBeforeEvents ==
    [][(wsPrivate = "open" /\ applied' # applied) => ~ unreconciled]_vars

\* C14: while a reconciliation pass is in progress, a fill handler that was
\* started by a live event and is resumed by its gateway response leaves
\* the Position Registry, the phase and the profit accumulator as they are.
C14_NoLiveFillDuringPass ==
    [][\A t \in BagToSet(tasks) :
          (/\ recon.pc # "idle"
           /\ t.k \in {"fillSell", "fillCancel", "fillDca"}
           /\ ~ t.replay
           /\ Resumes(t)) =>
          UNCHANGED <<openSellOrders, pendingDcaBuyOrder,
                      currentAggressiveBuyOrder, isInAggressiveBuyMode,
                      totalRealizedProfit>>]_vars

\* the fill of order id has taken effect: a buy's profit sell was placed, a
\* sell's profit was added
AppliedFill(id) ==
    IF orders[id].side = "buy" THEN SellsFor(id) # {}
    ELSE \E c \in credited : c.id = id

\* C15: a reconciliation pass does not apply again a fill that has already
\* taken effect, whatever has become of the Sell Slot since: handleOrderUpdate
\* is not called for it.
C15_ReplayIdempotent ==
    [][\A id \in 1..Len(orders) :
          (recon.pc # "idle" /\ AppliedFill(id)) =>
          CopiesIn(id, applied') = CopiesIn(id, applied)]_vars

\* C16: when the pass goes on from a replayed fill to the cancellation and
\* orphan steps, the sell and the averaging-down buy placed by the replay
\* stay in the Position Registry and are not cancelled as orphans.
C16_ReplayedOrdersKept ==
    [][(recon.pc = "next" /\ recon'.pc # "next") =>
          \A r \in replayed :
              /\ \A x \in openSellOrders :
                     x.buyOrderId = r.buy => x \in openSellOrders'
              /\ pendingDcaBuyOrder.orderId = r.dca =>
                     pendingDcaBuyOrder' = pendingDcaBuyOrder
              /\ \A o \in BagToSet(orphaned') :
                     o # r.dca /\ o \notin SellsFor(r.buy)]_vars

\* C17: once isShuttingDown is set the venue receives no new order, from no
\* timer, event handler or resumed handler.
C17_NoOrderAfterSignal ==
    [][isShuttingDown => Len(orders') = Len(orders)]_vars

\* C18: when gracefulShutdown has ended the process, no order is open at the
\* venue.
C18_NoOpenOrderAtExit == boot = "exited" => OpenIds(Cur) = {}

\* C19: with nothing in flight, every order open at the venue is in a slot
\* of the Position Registry.
C19_OpenOrdersTracked ==
    (Running /\ Quiescent) => OpenIds(Cur) \subseteq TrackedIds

\* C20: every Sell Slot holds a sell whose price, as placed after rounding
\* to the tick, is strictly above the slot's buyPrice.  (A slot is never
\* changed after its insertion.)
C20_SellAboveBuy == \A x \in openSellOrders : x.buyPrice < x.price

\* C21: start() always leaves the bot in AggressiveBuying with a cleared
\* registry, and no order that was open before it is still open, whether
\* or not the fetch and the cancels succeeded
C21_FreshStart ==
    [][(boot = "init" /\ boot' = "running")
         => /\ isInAggressiveBuyMode'
            /\ cycleNo' = 1
            /\ openSellOrders' = {}
            /\ pendingDcaBuyOrder' = NoOrder
            /\ currentAggressiveBuyOrder' = NoOrder
            /\ \A id \in OpenIds(Cur) : orders'[id].st # "open"]_vars

\* C22: no aggressive buy is placed while a Sell Slot is outstanding. The
\* handler that places one leaves the slots as they were at the placement,
\* so the slots after the step are those the placement saw.
C22_NoAggressiveWithSlots ==
    [][\A id \in (Len(orders) + 1)..Len(orders') :
          orders'[id].kind = "aggr" => openSellOrders' = {}]_vars

\* C23: when the open-order fetch of a reconciliation pass fails, the pass
\* still applies the missed fills the trade fetch returned
C23_FillsAppliedWithoutOpenOrders ==
    [][(/\ recon.pc = "fetch"
        /\ recon'.pc # "fetch"
        /\ ~ recon.open.ok
        /\ \E i \in 1..Len(recon.trades) :
              ~ wasOrderFillProcessed(Cur, recon.trades[i].ordId,
                                      recon.trades[i].side))
         => applied' # applied]_vars

\* the step in which a pass with a fetched open-order list runs
\* processMissedCancellations
CancellationStep ==
    /\ recon.pc \in {"fetch", "next"}
    /\ recon.open.ok
    /\ recon'.pc \in {"orphan", "idle"}

\* C24: when a pass whose open-order fetch succeeded has run its
\* cancellation step, every slot holds an order of the fetched set, the
\* orders the step took out were absent from that set, the tracked orders
\* present in it are still tracked, and the step placed no order (a
\* placement in the same step is the cycle start of a replayed sell fill).
C24_ClearedAreMissing ==
    [][CancellationStep =>
         /\ TrackedIds' \subseteq recon.open.ids
         /\ cleared' \cap recon.open.ids = {}
         /\ (TrackedIds \cap recon.open.ids) \subseteq TrackedIds'
         /\ credited' = credited =>
               /\ Len(orders') = Len(orders)
               /\ ~ AttemptIssued]_vars

\* a pass has taken a cancelled order out of its slot
C24_SlotCleared == cleared # {} /\ recon.pc = "idle" /\ passNo >= 1

\* the Account Feed delivers its first event to handleOrderUpdate in this step
Delivered ==
    /\ boot = "running"
    /\ boot' = "running"
    /\ wsPrivate = "open"
    /\ wsPrivate' = "open"
    /\ feed # <<>>
    /\ recon.pc = "idle"
    /\ \/ feed' = Tail(feed) /\ dups' = dups
       \/ feed' = feed /\ dups' = dups + 1

\* C25: when the order in the Aggressive Slot resolves, by its fill event or
\* by its cancellation event, the retry timer is cancelled
C25_TimerCancelledOnResolve ==
    [][(/\ Delivered
        /\ currentAggressiveBuyOrder # NoOrder
        /\ Head(feed).ordId = currentAggressiveBuyOrder.orderId
        /\ Head(feed).state \in {"filled", "cancelled"})
         => ~ aggressiveBuyRetryTimeout'.armed]_vars

\* the immediate-fill timer fires in this step: the one of the latest handle,
\* or one whose handle was overwritten
TimeoutFires ==
    /\ boot = "running"
    /\ boot' = "running"
    /\ \/ /\ aggressiveBuyRetryTimeout = [kind |-> "timeout", armed |-> TRUE]
          /\ aggressiveBuyRetryTimeout' = [kind |-> "timeout", armed |-> FALSE]
       \/ CopiesIn("timeout", orphanTimers')
             < CopiesIn("timeout", orphanTimers)

\* C26: the immediate-fill timer firing when the Aggressive Slot is empty is
\* a no-op: it places no order, cancels none, and changes neither the
\* Position Registry nor the Cycle Phase
C26_TimerOnEmptySlotNoOp ==
    [][(TimeoutFires /\ currentAggressiveBuyOrder = NoOrder)
         => UNCHANGED <<openSellOrders, pendingDcaBuyOrder,
                        currentAggressiveBuyOrder, isInAggressiveBuyMode,
                        orders, tasks>>]_vars

\* C27: handling a cancellation event clears the slot that holds the
\* event's order and nothing else: the other slots, the profit accumulator,
\* the phase and the retry timer are unchanged, no order is placed and none
\* cancelled; for an order in no slot nothing changes at all.
C27_CancellationClearsOneSlot ==
    [][(Delivered /\ Head(feed).state = "cancelled") =>
         LET id == Head(feed).ordId
         IN /\ openSellOrders' = {x \in openSellOrders : x.orderId # id}
            /\ pendingDcaBuyOrder' =
                  IF pendingDcaBuyOrder.orderId = id THEN NoOrder
                  ELSE pendingDcaBuyOrder
            /\ currentAggressiveBuyOrder' =
                  IF currentAggressiveBuyOrder.orderId = id THEN NoOrder
                  ELSE currentAggressiveBuyOrder
            /\ Cardinality({x \in openSellOrders : x.orderId = id})
                  + (IF pendingDcaBuyOrder.orderId = id THEN 1 ELSE 0)
                  + (IF currentAggressiveBuyOrder.orderId = id THEN 1 ELSE 0)
                  <= 1
            /\ UNCHANGED <<totalRealizedProfit, isInAggressiveBuyMode,
                           aggressiveBuyRetryTimeout, orphanTimers,
                           orders, tasks>>]_vars

\* the cancellation event of the aggressive buy has been handled while its
\* immediate-fill timer was armed: the slot is empty, the phase and the
\* timer are as they were
C27_AggressiveCancelHandled ==
    /\ extCancels = 1
    /\ feed = <<>>
    /\ wsPrivate = "open"
    /\ currentAggressiveBuyOrder = NoOrder
    /\ isInAggressiveBuyMode
    /\ aggressiveBuyRetryTimeout = [kind |-> "timeout", armed |-> TRUE]
    /\ \E id \in 1..Len(orders) :
          orders[id].kind = "aggr" /\ orders[id].st = "cancelled"

\* C28: whenever the bot runs with no Sell Slot and no shutdown signalled,
\* and the venue still accepts placements, an aggressive buy is eventually
\* open at the venue (or a Sell Slot has come to exist): the bot does not
\* rest forever with no Sell Slot and no aggressive order
C28_AggressiveEventuallyPlaced ==
    (/\ boot = "running"
     /\ cycleNo >= 1
     /\ ~ isShuttingDown
     /\ openSellOrders = {}
     /\ Len(orders) < orderCap)
      ~> (\/ OpenAggressive # {}
          \/ openSellOrders # {}
          \/ Len(orders) >= orderCap)

\* C29: the two placements after a buy fill are independent. A handler told
\* that its profit sell was not placed (by a venue that accepts orders) goes
\* on to its averaging-down buy; a handler told that its averaging-down buy
\* was not placed leaves the Sell Slots as they are.
C29_PlacementsIndependent ==
    [][\A t \in BagToSet(tasks) :
          (Resumes(t) /\ t.res = 0 /\ boot' = "running") =>
             /\ (t.k = "fillSell" /\ Len(orders) < orderCap) =>
                   \E u \in BagToSet(tasks') :
                      /\ u.k \in {"fillCancel", "fillDca"}
                      /\ u.ord = t.ord
                      /\ CopiesIn(u, tasks') > CopiesIn(u, tasks)
             /\ t.k = "fillDca" => openSellOrders' = openSellOrders]_vars

\* C30: a gateway call that is not confirmed leaves the slot at its value
\* from before the call: a handler told that the cancel of an order still
\* open at the venue was not confirmed leaves the Aggressive Slot and the
\* Averaging-Down Slot as they are, and a handler told that its placement
\* was not confirmed puts no order into a slot.
C30_SlotKeptWhenUnconfirmed ==
    [][\A t \in BagToSet(tasks) :
          (Resumes(t) /\ t.res = 0 /\ boot' = "running") =>
             /\ (t.k \in {"timeout", "fillCancel"} /\ t.tgt \in OpenIds(Cur))
                   => /\ currentAggressiveBuyOrder' = currentAggressiveBuyOrder
                      /\ pendingDcaBuyOrder' = pendingDcaBuyOrder
             /\ t.k \in {"attempt", "fillSell", "fillDca"}
                   => TrackedIds' \subseteq TrackedIds]_vars

\* C31: a request the venue rejected (a response with a non-zero result
\* code) is not sent again: it was the last request of its call; and a call
\* sends at most MAX_API_RETRIES requests, failing when the last of them
\* got no usable answer
C31_RejectionNotRetried ==
    /\ \A i \in 1..Len(api.log) :
          api.log[i] \in Rejections => api.sent = i
    /\ api.sent <= MaxApiRetries
    /\ (Len(api.log) = MaxApiRetries /\ api.log[MaxApiRetries] # "ok")
          => api.pc = "failed"

\* C32: every reconciliation pass a private-feed disconnect started ends,
\* whether its fetches and order operations succeed or fail, with
\* isReconnecting false and the private-feed reconnect scheduled
C32_PassEndsAndReconnects ==
    isReconnecting ~> (~ isReconnecting /\ reconnectTimer)

\* a pass whose open-order fetch failed has ended: the fill it should have
\* replayed is in the venue's history and was never applied
C32_FailedPassEnded ==
    /\ passNo >= 1
    /\ ~ isReconnecting
    /\ reconnectTimer
    /\ apiFails = 1
    /\ failIn = 0
    /\ applied = EmptyBag
    /\ \E id \in 1..Len(orders) : orders[id].st = "filled"

\* C33: handling a sell-fill event whose order is in no Sell Slot leaves the
\* profit accumulator, the Position Registry and the phase unchanged and
\* places no order, also when there is no Sell Slot at all
C33_UnknownSellFillNoOp ==
    [][(/\ Delivered
        /\ Head(feed).state = "filled"
        /\ Head(feed).side = "sell"
        /\ \A x \in openSellOrders : x.orderId # Head(feed).ordId)
         => /\ UNCHANGED <<totalRealizedProfit, openSellOrders,
                           pendingDcaBuyOrder, currentAggressiveBuyOrder,
                           isInAggressiveBuyMode, orders>>
            /\ ~ AttemptIssued]_vars
====
